---------------------------- MODULE Spec2Model ----------------------------
(***************************************************************************)
(* Model of analysis.py: the multi-criteria analysis functions of the       *)
(* country comparison (weighted utility scoring, Pareto optimality, ...).   *)
(*                                                                         *)
(* Numbers.  The program computes with IEEE doubles.  Factor values carry   *)
(* one decimal (data.py rounds them with .round(1)), so a factor value is   *)
(* modelled by its integer number of tenths; a Weighted Score carries two   *)
(* decimals and is modelled by its integer number of hundredths.  A weight  *)
(* is an integer number of weight units (only ratios of weights are used).  *)
(* Sums and quotients are exact; the one place where the binary             *)
(* representation error of the doubles decides the result, a sum that lies  *)
(* exactly halfway between two hundredths, is resolved by fpTie (below).    *)
(***************************************************************************)
EXTENDS Integers, Sequences, FiniteSets, TLC

\* ------------------------------------------------------------------ bounds
\* Largest number of rows of an input table.
MaxRows == 3
\* Largest factor value of a bounded table, in tenths.
MaxVal == 1
\* Largest single weight of a bounded weight vector, in weight units.
MaxWeight == 3

\* -------------------------------------------------------------- data.py
\* FACTOR_NAMES = list(DEFAULT_WEIGHTS.keys()).  The model keeps the first two
\* factors of the program's four (the two-factor tables F1, F2 of the
\* specification's scenarios); every operator below is written for any number
\* of factors.
FACTOR_NAMES == <<"F1", "F2">>

K == Len(FACTOR_NAMES)

FactorSet == { FACTOR_NAMES[i] : i \in 1..K }

\* DEFAULT_WEIGHTS, in hundredths of a weight (0.35, 0.30, ...), for the
\* factors of FACTOR_NAMES.
DefaultWeightValues == <<35, 30, 20, 15>>

DEFAULT_WEIGHTS == [ f \in FactorSet |->
                       DefaultWeightValues[CHOOSE i \in 1..K : FACTOR_NAMES[i] = f] ]

\* ------------------------------------------------------------ arithmetic
RECURSIVE SumSeq(_)
SumSeq(s) == IF s = <<>> THEN 0 ELSE Head(s) + SumSeq(Tail(s))

RECURSIVE SumOver(_, _)
\* sum(d.values()) for a dict d with key set ks
SumOver(d, ks) ==
    IF ks = {} THEN 0
    ELSE LET k == CHOOSE x \in ks : TRUE
         IN  d[k] + SumOver(d, ks \ {k})


\* ------------------------------------------------------------- the state
VARIABLES
    factor_df,   \* the caller's factor table: a sequence of rows, each a function
                 \* on the column names "Country", FACTOR_NAMES[1], ...
    weights,     \* the caller's weights argument: None, or Some(d) for a dict d
                 \* (a function on its keys)
    fpTie,       \* the <<row values, weight dict>> pairs whose weighted sum, when
                 \* it lies exactly halfway between two hundredths, the doubles
                 \* carry to the upper hundredth (to the lower one otherwise)
    fpStd,       \* the rows (by their factor values) whose standard deviation the
                 \* doubles compute one step above that of the other rows of the
                 \* same exact standard deviation (see find_nash_equilibrium)
    call,        \* the last call: the function called and how its arguments were
                 \* derived from factor_df and weights
    result       \* what the last call returned or raised

vars == <<factor_df, weights, fpTie, fpStd, call, result>>

\* An optional argument (dict | None): None, or the one-element tuple of the dict.
None == <<>>

Some(d) == <<d>>

\* A row of a factor table with entity identifier c and factor values v[1..K].
Row(c, v) == [ col \in {"Country"} \cup FactorSet |->
                 IF col = "Country" THEN c
                 ELSE v[CHOOSE i \in 1..K : FACTOR_NAMES[i] = col] ]

\* The factor values of a row, in FACTOR_NAMES order: df[FACTOR_NAMES].values
Values(row) == [ i \in 1..K |-> row[FACTOR_NAMES[i]] ]

\* ------------------------------------------- what a caller may pass in
\* The rows 1..n in their given order, and the other row orders a caller
\* presents the same table in: reversed, and with the first two rows exchanged.
Identity(n) == [ i \in 1..n |-> i ]

Orders(n) ==
    { Identity(n),
      [ i \in 1..n |-> n + 1 - i ],
      [ i \in 1..n |-> IF n >= 2 /\ i <= 2 THEN 3 - i ELSE i ] }

\* The table df with its rows in the order p.
Reorder(df, p) == [ i \in 1..Len(df) |-> df[p[i]] ]

\* The positive scalars a caller multiplies a weight vector by.
Scalars == {1, 3}

\* The weight vector with every weight multiplied by c.
Scaled(wts, c) ==
    IF wts = None THEN None ELSE Some([ k \in DOMAIN wts[1] |-> c * wts[1][k] ])

\* ------------------------------------------------ compute_weighted_utility
\* Lines 28-29: weights defaults to DEFAULT_WEIGHTS.
EffectiveWeights(wts) == IF wts = None THEN DEFAULT_WEIGHTS ELSE wts[1]

\* Mutant of Total: len(weights) in the place of the sum of the weights.
TotalCount(w) == Cardinality(DOMAIN w)

\* Mutant of Total: the weights are used as given, not divided by their sum.
TotalNotNormalised(w) == 1

\* Line 32: total = sum(weights.values())
Total(w) == SumOver(w, DOMAIN w)

\* Lines 33 and 36, before rounding: sum(df[f] * w[f] for f in FACTOR_NAMES) with
\* w[f] = weights[f] / total, as the exact fraction num / Total(w) of hundredths
\* (factor values are tenths, hence the 10).
ScoreNum(row, w) == 10 * SumSeq([ i \in 1..K |-> row[FACTOR_NAMES[i]] * w[FACTOR_NAMES[i]] ])

\* Mutant of Round2: the digits after the second decimal are cut off.
Round2Truncating(num, den, up) ==
    (IF den > 0 THEN num ELSE 0 - num) \div (IF den > 0 THEN den ELSE 0 - den)

\* Line 37: .round(2) of the value num / den hundredths (den # 0): the nearest
\* hundredth; a value exactly halfway goes up iff `up`.
Round2(num, den, up) ==
    LET n   == IF den > 0 THEN num ELSE 0 - num
        d   == IF den > 0 THEN den ELSE 0 - den
        lo  == n \div d
        rem == n % d
    IN  IF 2 * rem < d THEN lo
        ELSE IF 2 * rem > d THEN lo + 1
        ELSE IF up THEN lo + 1 ELSE lo

\* Lines 36-37: a row's "Weighted Score", in hundredths.
WeightedScore(row, w, tie) ==
    Round2(ScoreNum(row, w), Total(w), <<Values(row), w>> \in tie)

\* Mutant of RankColumn: rank() with its default ascending=True.
RankColumnAscending(scores) ==
    [ i \in DOMAIN scores |->
        Cardinality({ j \in DOMAIN scores : scores[j] < scores[i] })
        + ((Cardinality({ j \in DOMAIN scores : scores[j] = scores[i] }) + 1) \div 2) ]

\* Mutant of RankColumn: rank(method="first"), tied values ranked in the order
\* they appear in.
RankColumnFirst(scores) ==
    [ i \in DOMAIN scores |->
        Cardinality({ j \in DOMAIN scores : scores[j] > scores[i] })
        + Cardinality({ j \in DOMAIN scores : scores[j] = scores[i] /\ j <= i }) ]

\* Line 38: Series.rank(ascending=False) (method "average": a group of tied
\* values shares the mean of the positions it occupies) then .astype(int)
\* (truncation).  scores is the "Weighted Score" column; the result is the
\* "Rank" column.
RankColumn(scores) ==
    [ i \in DOMAIN scores |->
        LET greater == Cardinality({ j \in DOMAIN scores : scores[j] > scores[i] })
            equal   == Cardinality({ j \in DOMAIN scores : scores[j] = scores[i] })
        IN  \* the mean of greater+1 .. greater+equal is greater + (equal + 1) / 2
            greater + ((equal + 1) \div 2) ]

RECURSIVE Descending(_, _)
\* The arrangements of the rows of df with indices in S that descend in
\* "Weighted Score": any row of the greatest score first, then the others.
Descending(df, S) ==
    IF S = {} THEN { <<>> }
    ELSE UNION { { <<df[i]>> \o rest : rest \in Descending(df, S \ {i}) } :
                 i \in { j \in S : \A k \in S :
                           df[j]["Weighted Score"] >= df[k]["Weighted Score"] } }

\* Line 39: sort_values("Weighted Score", ascending=False) with the default
\* kind="quicksort", which is not a stable sort (numpy's introsort keeps tied
\* elements in place only in the short runs it sorts by insertion; the
\* program's tables have 20 rows and more).  The tables of the model are short
\* and stand for tables of any length, so the row orders the sort can produce
\* are the arrangements of the rows that descend in Weighted Score, tied rows
\* in any order.  reset_index(drop=True) renumbers the rows.
SortValuesDescending(df) == Descending(df, 1..Len(df))

\* Lines 28-38: the table with its "Weighted Score" and "Rank" columns, before
\* it is sorted: [status |-> "ok", df |-> the table], or [status |-> the
\* exception raised].
RankedTable(df, wts, tie) ==
    LET w == EffectiveWeights(wts)
    IN  IF DOMAIN w # {} /\ Total(w) = 0
        THEN \* line 33: v / total raises
             [status |-> "ZeroDivisionError", df |-> <<>>]
        ELSE IF ~ (FactorSet \subseteq DOMAIN w)
        THEN \* line 36: w[f] for a factor that is not a key
             [status |-> "KeyError", df |-> <<>>]
        ELSE LET scores == [ i \in 1..Len(df) |-> WeightedScore(df[i], w, tie) ]
                 ranks  == RankColumn(scores)
             IN  [status |-> "ok",
                  df |-> [ i \in 1..Len(df) |->
                             df[i] @@ ("Weighted Score" :> scores[i])
                                   @@ ("Rank" :> ranks[i]) ]]

\* compute_weighted_utility(df, wts): the set of its possible outcomes, each
\* [status |-> "ok", df |-> the returned table] or [status |-> the exception].
compute_weighted_utility(df, wts, tie) ==
    LET ranked == RankedTable(df, wts, tie)
    IN  IF ranked.status = "ok"
        THEN { [status |-> "ok", df |-> out] : out \in SortValuesDescending(ranked.df) }
        ELSE { ranked }

\* ---------------------------------------------------- find_pareto_optimal
\* Mutant of Dominates: "strictly better in ALL four factors" (the docstring's
\* first sentence) instead of >= in all and > in one.
DominatesStrictlyInAll(sj, si) == \A k \in 1..K : sj[k] > si[k]

\* Mutant of Dominates: >= in all factors, the test for > in one forgotten.
DominatesWeakly(sj, si) == \A k \in 1..K : sj[k] >= si[k]

\* Mutant of Dominates: the two rows compared the wrong way round.
DominatesReversed(sj, si) ==
    /\ \A k \in 1..K : sj[k] <= si[k]
    /\ \E k \in 1..K : sj[k] < si[k]

\* Line 61: np.all(scores[j] >= scores[i]) and np.any(scores[j] > scores[i])
Dominates(sj, si) ==
    /\ \A k \in 1..K : sj[k] >= si[k]
    /\ \E k \in 1..K : sj[k] > si[k]

\* Lines 54-63: the indices the double loop adds to `dominated`.
Dominated(df) ==
    { i \in 1..Len(df) :
        \E j \in 1..Len(df) : j # i /\ Dominates(Values(df[j]), Values(df[i])) }

RECURSIVE CountriesNotIn(_, _, _)
\* Line 65: [countries[i] for i in range(from, n) if i not in skip]
CountriesNotIn(df, skip, from) ==
    IF from > Len(df) THEN <<>>
    ELSE (IF from \in skip THEN <<>> ELSE <<df[from].Country>>)
         \o CountriesNotIn(df, skip, from + 1)

find_pareto_optimal(df) == CountriesNotIn(df, Dominated(df), 1)

\* ----------------------------------------------------- pareto_frontier_2d
RECURSIVE SortValues(_, _, _, _)
\* df.sort_values(col, ascending=...) of the rows of df with indices in S, by
\* one column with the default kind="quicksort" (not stable): the arrangements
\* of the rows that ascend (descend) in col, rows of equal col in any order.
SortValues(df, S, col, ascending) ==
    IF S = {} THEN { <<>> }
    ELSE UNION { { <<df[i]>> \o rest : rest \in SortValues(df, S \ {i}, col, ascending) } :
                 i \in { j \in S : \A k \in S :
                           IF ascending THEN df[j][col] <= df[k][col]
                                        ELSE df[j][col] >= df[k][col] } }

\* Line 81: max_y = -np.inf, the running maximum before any row is swept.
NegInf == <<>>

\* Mutant of Keeps: a row is kept only when its y exceeds the running maximum.
KeepsStrictlyAbove(y, max_y) == max_y = NegInf \/ y > max_y[1]

\* Line 84: row[y_col] >= max_y, with max_y either NegInf or <<the maximum>>.
Keeps(y, max_y) == max_y = NegInf \/ y >= max_y[1]

\* Mutant of RunningMax: the assignment of line 86 forgotten.
RunningMaxNotUpdated(y, max_y) == max_y

\* Line 86: max_y = row[y_col], the running maximum after a row of that y is
\* kept.
RunningMax(y, max_y) == <<y>>

RECURSIVE Sweep(_, _, _, _, _)
\* Lines 83-86: the loop over the rows in sweep order from row i on, with the
\* running maximum max_y and the rows kept so far.
Sweep(rows, i, y_col, max_y, frontier) ==
    IF i > Len(rows) THEN frontier
    ELSE IF Keeps(rows[i][y_col], max_y)
         THEN Sweep(rows, i + 1, y_col, RunningMax(rows[i][y_col], max_y),
                    Append(frontier, rows[i]))
         ELSE Sweep(rows, i + 1, y_col, max_y, frontier)

\* Mutant of FrontierFrame: the kept rows are returned in the order of the
\* sweep (x descending), the final sort forgotten.
FrontierFrameAsSwept(frontier, x_col) ==
    { [status |-> "ok", frontier |-> frontier] }

\* Line 88: pd.DataFrame(frontier).sort_values(x_col).reset_index(drop=True).
\* The frame of an empty list has no columns, and sort_values raises KeyError.
FrontierFrame(frontier, x_col) ==
    IF frontier = <<>> THEN { [status |-> "KeyError", frontier |-> <<>>] }
    ELSE { [status |-> "ok", frontier |-> f] :
             f \in SortValues(frontier, 1..Len(frontier), x_col, TRUE) }

\* pareto_frontier_2d(df, x_col, y_col): the set of its possible outcomes.
pareto_frontier_2d(df, x_col, y_col) ==
    LET \* line 77
        cols == [ i \in 1..Len(df) |-> [ c \in {"Country", x_col, y_col} |-> df[i][c] ] ]
        \* line 78
        sorted == SortValues(cols, 1..Len(cols), x_col, TRUE)
        \* line 83: the orders the loop can sweep the rows in
        sweeps == UNION { SortValues(a, 1..Len(a), x_col, FALSE) : a \in sorted }
    IN  UNION { FrontierFrame(Sweep(rows, 1, y_col, NegInf, <<>>), x_col) : rows \in sweeps }

\* ------------------------------------------------- find_dominant_strategy
\* Mutant of IdxMax: idxmin() in the place of idxmax().
IdxMin(df, f) ==
    CHOOSE i \in 1..Len(df) :
        /\ \A k \in 1..Len(df) : df[i][f] <= df[k][f]
        /\ \A k \in 1..(i - 1) : df[k][f] > df[i][f]

\* Line 101: factor_df[f].idxmax(), the label of the first row that holds the
\* maximum of column f (df has a row).
IdxMax(df, f) ==
    CHOOSE i \in 1..Len(df) :
        /\ \A k \in 1..Len(df) : df[i][f] >= df[k][f]
        /\ \A k \in 1..(i - 1) : df[k][f] < df[i][f]

\* Mutant of find_dominant_strategy: the best of the first factor is returned,
\* the test of line 104 forgotten.
find_dominant_strategy_of_first_factor(df) ==
    IF Len(df) = 0 THEN [status |-> "ValueError", country |-> None]
    ELSE [status |-> "ok", country |-> Some(df[IdxMax(df, FACTOR_NAMES[1])].Country)]

\* find_dominant_strategy(df): [status |-> "ok", country |-> Some(c) or None],
\* or [status |-> the exception raised] (idxmax of an empty column raises
\* ValueError).
find_dominant_strategy(df) ==
    IF Len(df) = 0 THEN [status |-> "ValueError", country |-> None]
    ELSE LET \* lines 99-101
             best_per_factor == [ f \in FactorSet |-> df[IdxMax(df, f)].Country ]
             \* line 103
             countries == { best_per_factor[f] : f \in FactorSet }
         IN  IF Cardinality(countries) = 1
             THEN [status |-> "ok", country |-> Some(CHOOSE c \in countries : TRUE)]
             ELSE [status |-> "ok", country |-> None]

\* -------------------------------------------------- find_nash_equilibrium
\* Line 119: df[FACTOR_NAMES].std(axis=1), the sample standard deviation of a
\* row's values v[1..K].  Its square is VarNum(v) / (K * K * (K - 1)) tenths
\* squared, so the exact standard deviations of two rows compare as their
\* VarNum do.
VarNum(v) ==
    SumSeq([ i \in 1..K |-> (K * v[i] - SumSeq(v)) * (K * v[i] - SumSeq(v)) ])

\* Two rows of values for which the doubles carry out the same computation:
\* with two factors, the same two values in either order (a sum of two
\* doubles does not depend on their order).
SameComputation(u, v) ==
    u = v \/ (K = 2 /\ u[1] = v[2] /\ u[2] = v[1])

\* The rows of values whose computed standard deviation is exactly the exact
\* one: with two factors, the rows of two equal values (mean and deviations
\* are computed without error, the result is 0.0).
StdIsExact(v) == K = 2 /\ v[1] = v[2]

\* The computed "Factor Std" of a row, as a pair that compares
\* lexicographically: the exact value, then the step by which the rounding
\* errors of the doubles lift it (rows in fpStd) above the other rows of the
\* same exact value.  Exact values that differ are far apart next to the
\* rounding errors.
FactorStd(v, noisy) == << VarNum(v), IF v \in noisy THEN 1 ELSE 0 >>

\* Line 120: df[FACTOR_NAMES].mean(axis=1), times K.  (Rows that the sort
\* compares by mean have equal "Factor Std"; with two factors their means
\* either differ by a twentieth or more or are computed from the same values.)
FactorMean(v) == SumSeq(v)

\* Mutant of SortsBefore: ascending=[False, True], the two flags exchanged.
SortsBeforeFlagsExchanged(u, v, noisy) ==
    LET su == FactorStd(u, noisy)
        sv == FactorStd(v, noisy)
    IN  \/ su[1] > sv[1]
        \/ su[1] = sv[1] /\ su[2] > sv[2]
        \/ su = sv /\ FactorMean(u) < FactorMean(v)

\* Line 122: whether sort_values(["Factor Std", "Factor Mean"],
\* ascending=[True, False]) puts a row of values u before a row of values v
\* on account of the two keys.
SortsBefore(u, v, noisy) ==
    LET su == FactorStd(u, noisy)
        sv == FactorStd(v, noisy)
    IN  \/ su[1] < sv[1]
        \/ su[1] = sv[1] /\ su[2] < sv[2]
        \/ su = sv /\ FactorMean(u) > FactorMean(v)

\* find_nash_equilibrium(df): [status |-> "ok", country |-> c], or
\* [status |-> the exception raised].  The sort by several columns is a stable
\* sort (a lexsort), so the row at position 0 is the first row of the input
\* that no row sorts before; iloc[0] of an empty frame raises IndexError.
find_nash_equilibrium(df, noisy) ==
    IF Len(df) = 0 THEN [status |-> "IndexError"]
    ELSE LET first == CHOOSE i \in 1..Len(df) :
                        /\ \A k \in 1..Len(df) :
                             ~ SortsBefore(Values(df[k]), Values(df[i]), noisy)
                        /\ \A k \in 1..(i - 1) :
                             SortsBefore(Values(df[i]), Values(df[k]), noisy)
         IN  [status |-> "ok", country |-> df[first].Country]

\* -------------------------------------------------- build_tradeoff_matrix
\* Mutant of HeadRows: tail(top_n), the last top_n rows.
TailRows(df, top_n) ==
    SubSeq(df, (IF top_n < Len(df) THEN Len(df) - top_n ELSE 0) + 1, Len(df))

\* Line 136: scored_df.head(top_n), the first top_n rows (all rows when there
\* are fewer), for top_n >= 0.
HeadRows(df, top_n) == SubSeq(df, 1, IF top_n < Len(df) THEN top_n ELSE Len(df))

\* Line 139: df[f].max() (df has a row).
ColumnMax(df, f) ==
    CHOOSE m \in { df[i][f] : i \in 1..Len(df) } : \A k \in 1..Len(df) : df[k][f] <= m

\* round(x, 1) of x = h / 100 (h hundredths), in tenths: the nearest tenth, a
\* value exactly halfway to the even one.
Round1(h) ==
    LET lo  == h \div 10
        rem == h % 10
    IN  IF rem < 5 THEN lo
        ELSE IF rem > 5 THEN lo + 1
        ELSE IF lo % 2 = 0 THEN lo ELSE lo + 1

\* Mutant of Delta: the difference taken the other way round.
DeltaReversed(value, best) == Round1(10 * (best - value))

\* Lines 145-146: diff = row[f] - best[f]; round(diff, 1).  value and best are
\* tenths, the result is in tenths (the difference of the two doubles is off
\* the exact number of tenths by far less than half a tenth).
Delta(value, best) == Round1(10 * (value - best))

\* Mutant of build_tradeoff_matrix: best-in-class taken over the whole scored
\* table instead of its first top_n rows.
build_tradeoff_matrix_best_of_all(scored_df, top_n) ==
    LET df == HeadRows(scored_df, top_n)
    IN  [ i \in 1..Len(df) |->
            [ Country |-> df[i].Country,
              WeightedScore |-> df[i]["Weighted Score"],
              delta |-> [ f \in FactorSet |-> Delta(df[i][f], ColumnMax(scored_df, f)) ] ] ]

\* build_tradeoff_matrix(scored_df, top_n): the returned table, a record per
\* row with the columns Country, Weighted Score and, under delta, the
\* trade-off column of every factor.
build_tradeoff_matrix(scored_df, top_n) ==
    LET \* line 136
        df == HeadRows(scored_df, top_n)
    IN  \* lines 141-147 (best[f] of line 139 is ColumnMax(df, f))
        [ i \in 1..Len(df) |->
            [ Country |-> df[i].Country,
              WeightedScore |-> df[i]["Weighted Score"],
              delta |-> [ f \in FactorSet |-> Delta(df[i][f], ColumnMax(df, f)) ] ] ]

\* ---------------------------------------------- pairwise_tradeoff_summary
\* Mutant of FactorPairs: permutations(FACTOR_NAMES, 2), every ordered pair.
FactorPairsOrdered == { pr \in (1..K) \X (1..K) : pr[1] # pr[2] }

\* Line 158: combinations(FACTOR_NAMES, 2), the pairs of positions i < j.
FactorPairs == { pr \in (1..K) \X (1..K) : pr[1] < pr[2] }

\* The n-th pair in the order the loop of line 158 takes them in
\* (lexicographic).
PairAt(n) ==
    CHOOSE pr \in FactorPairs :
        Cardinality({ q \in FactorPairs :
            q[1] < pr[1] \/ (q[1] = pr[1] /\ q[2] < pr[2]) }) = n - 1

\* pairwise_tradeoff_summary(scored_df, top_n): [status |-> "ok", rows |-> the
\* returned records], or [status |-> the exception raised] (idxmax of an empty
\* column raises ValueError).
pairwise_tradeoff_summary(scored_df, top_n) ==
    LET \* line 156
        df == HeadRows(scored_df, top_n)
    IN  IF Len(df) = 0 /\ FactorPairs # {}
        THEN [status |-> "ValueError", rows |-> <<>>]
        ELSE [status |-> "ok",
              rows |-> [ n \in 1..Cardinality(FactorPairs) |->
                  LET fa == FACTOR_NAMES[PairAt(n)[1]]
                      fb == FACTOR_NAMES[PairAt(n)[2]]
                      \* line 159
                      best_a_idx == IdxMax(df, fa)
                  IN  \* lines 164-172
                      [ FactorA |-> fa,
                        FactorB |-> fb,
                        BestInA |-> df[best_a_idx].Country,
                        AScore  |-> df[best_a_idx][fa],
                        BScore  |-> df[best_a_idx][fb],
                        BBest   |-> ColumnMax(df, fb),
                        BGap    |-> Delta(df[best_a_idx][fb], ColumnMax(df, fb)) ] ]]

\* ------------------------------------------- the dashboard's weights
\* app.py lines 76-79: a slider's values, 0..100 in the script (bounded here).
SliderValues == 0..MaxWeight

\* app.py lines 81-89: the weights dict the script builds from the slider
\* positions, in units of 1/raw_total (raw_total is the sum of the sliders,
\* or 1 when that sum is 0, so that the dict of four sliders at 0 holds four
\* zeros).
AppWeights(sliders) == Some([ f \in FactorSet |-> sliders[f] ])

\* ------------------------------------- the frames the functions work on
\* Mutant of FrameCopy: df = factor_df, the .copy() forgotten; the function
\* works on the caller's frame.
FrameShared(df) == [shared |-> TRUE, rows |-> df]

\* factor_df.copy() (lines 35 and 118): the frame the function sets its
\* columns on is a new object with the rows of df.
FrameCopy(df) == [shared |-> FALSE, rows |-> df]

\* The caller's frame df after the function has set columns on its working
\* frame `local`, which holds `rows` from then on.
CallerFrame(df, local, rows) == IF local.shared THEN rows ELSE df

\* The caller's table after compute_weighted_utility(df, wts): lines 36-38 set
\* "Weighted Score" and "Rank" on the frame of line 35; sort_values and
\* reset_index of line 39 return new frames.  The weights dict is only read
\* (line 33 builds the new dict w).
FrameAfterScoring(df, wts, tie) ==
    LET ranked == RankedTable(df, wts, tie)
    IN  IF ranked.status = "ok" THEN CallerFrame(df, FrameCopy(df), ranked.df) ELSE df

\* The caller's table after find_nash_equilibrium(df): lines 119-120 set
\* "Factor Std" and "Factor Mean" on the frame of line 118; line 122 binds the
\* sorted frame, a new object, to the local name.
FrameAfterBalance(df, noisy) ==
    CallerFrame(df, FrameCopy(df),
                [ i \in 1..Len(df) |->
                    df[i] @@ ("Factor Std" :> FactorStd(Values(df[i]), noisy))
                          @@ ("Factor Mean" :> FactorMean(Values(df[i]))) ])

\* ------------------------------------------------------ run_full_analysis
\* top_n: int = 10, the default of build_tradeoff_matrix and of
\* pairwise_tradeoff_summary.
TopNDefault == 10

\* Mutant of AnalysisArgument: the scored table is passed on instead.
AnalysisArgumentScored(raw_df, scored) == scored

\* Lines 183-185: find_pareto_optimal, find_dominant_strategy and
\* find_nash_equilibrium are called with factor_df, the raw table.
AnalysisArgument(raw_df, scored) == raw_df

\* ------------------------------------------------------------------ Init
\* The bounded tables: up to MaxRows rows with factor values 0..MaxVal tenths,
\* entity i in row i.
BoundedTables ==
    UNION { { [ i \in 1..n |-> Row(i, t[i]) ] : t \in [1..n -> [1..K -> 0..MaxVal]] } :
            n \in 0..MaxRows }

\* The bounded tables whose rows are listed in one base order (ascending in
\* RowCode): one table for each collection of rows.
RowCode(v) == SumSeq([ i \in 1..K |-> v[i] * ((MaxVal + 1) ^ (i - 1)) ])

BaseTables ==
    { t \in BoundedTables :
        \A i \in 1..(Len(t) - 1) : RowCode(Values(t[i])) <= RowCode(Values(t[i + 1])) }

\* The specification's regression table: A{F1:100, F2:0}, B{F1:0, F2:100},
\* C{F1:50, F2:50} (entities 1, 2, 3; values in tenths).
ScenarioTable == << Row(1, <<1000, 0>>), Row(2, <<0, 1000>>), Row(3, <<500, 500>>) >>

\* The weight vectors a caller passes: None; a dict on exactly the factor names
\* with weights 0..MaxWeight; such a dict with weights among -1, 1 and
\* MaxWeight; a dict with weights 0..1 and one more key "Other" of weight 1; a
\* dict that lacks the last factor.
BoundedWeights ==
    {None}
    \cup { Some(d) : d \in [FactorSet -> 0..MaxWeight] }
    \cup { Some(d) : d \in [FactorSet -> {0 - 1, 1, MaxWeight}] }
    \cup { Some(d @@ ("Other" :> 1)) : d \in [FactorSet -> 0..1] }
    \cup { Some([ f \in FactorSet \ {FACTOR_NAMES[K]} |-> 1 ]) }

\* The weight vectors that the tables of several rows are scored with: None,
\* equal weights, and the first factor at 1 unit with the others at 3 (sums
\* that lie halfway between two hundredths arise with these).
ColumnWeights ==
    { None,
      Some([ f \in FactorSet |-> 1 ]),
      Some([ f \in FactorSet |-> IF f = FACTOR_NAMES[1] THEN 1 ELSE 3 ]) }

\* Whether num / den hundredths lies exactly halfway between two hundredths.
IsHalfway(num, den) ==
    LET d == IF den > 0 THEN den ELSE 0 - den
    IN  2 * ((IF den > 0 THEN num ELSE 0 - num) % d) = d

\* The <<row values, weight dict>> pairs of the calls on df and wts whose exact
\* weighted sum is halfway between two hundredths.
HalfwayCases(df, wts) ==
    { x \in { <<Values(df[i]), EffectiveWeights(Scaled(wts, c))>> :
                i \in 1..Len(df), c \in Scalars } :
        /\ FactorSet \subseteq DOMAIN x[2]
        /\ Total(x[2]) # 0
        /\ IsHalfway(ScoreNum(Row(0, x[1]), x[2]), Total(x[2])) }

NoCall == [op |-> "none"]

NoResult == [status |-> "none"]

\* The scorer's callers: a table (in its base row order; a call presents it in
\* any of Orders), a weights argument, and the doubles' rounding of the halfway
\* sums these two give rise to.  What the scorer does with a row (lines 32-37)
\* is exercised with every bounded weight vector on the tables of at most one
\* row, what it does with the column of scores (lines 38-39) with
\* ColumnWeights on every table.
Init ==
    /\ \/ factor_df \in BaseTables /\ weights \in ColumnWeights
       \/ /\ factor_df \in { t \in BaseTables : Len(t) <= 1 }
          /\ weights \in BoundedWeights
       \/ /\ factor_df = ScenarioTable
          /\ weights \in {None, Some([ f \in FactorSet |-> 1 ])}
    /\ fpTie \in SUBSET HalfwayCases(factor_df, weights)
    /\ fpStd = {}
    /\ call = NoCall
    /\ result = NoResult

\* Two entities of the same exact standard deviation (each has its two values
\* 78.3 apart) and different means: A{F1: 78.5, F2: 0.2}, B{F1: 96.4, F2: 18.1}.
TiedSpreadTable == << Row(1, <<785, 2>>), Row(2, <<964, 181>>) >>

\* The rows of df (by their values) whose computed standard deviation the
\* rounding errors can set apart from that of another row of df: the other row
\* has the same exact standard deviation and is computed differently.
NoisyStdCases(df) ==
    { v \in { Values(df[i]) : i \in 1..Len(df) } :
        /\ ~ StdIsExact(v)
        /\ \E k \in 1..Len(df) :
             /\ VarNum(Values(df[k])) = VarNum(v)
             /\ ~ SameComputation(Values(df[k]), v) }

\* The callers of the functions that take the factor table alone.  The rows
\* in fpStd are those the doubles compute a greater standard deviation for;
\* rows of the same computation are in it together.
InitTable ==
    /\ factor_df \in BoundedTables \cup {ScenarioTable, TiedSpreadTable}
    /\ weights = None
    /\ fpTie = {}
    /\ fpStd \in { n \in SUBSET NoisyStdCases(factor_df) :
                    \A u \in n, v \in NoisyStdCases(factor_df) :
                        SameComputation(u, v) => v \in n }
    /\ call = NoCall
    /\ result = NoResult

\* --------------------------------------------------------------- actions
\* A caller invokes compute_weighted_utility on the table in row order p with
\* the weights argument.
Score(p) ==
    /\ call = NoCall
    /\ call' = [op |-> "compute_weighted_utility", order |-> p, scale |-> 1]
    /\ result' \in compute_weighted_utility(Reorder(factor_df, p), weights, fpTie)
    /\ UNCHANGED <<factor_df, weights, fpTie, fpStd>>

\* A caller invokes compute_weighted_utility on the table with every weight
\* multiplied by c.
ScoreScaled(c) ==
    /\ call = NoCall
    /\ call' = [op |-> "compute_weighted_utility",
                order |-> Identity(Len(factor_df)), scale |-> c]
    /\ result' \in compute_weighted_utility(factor_df, Scaled(weights, c), fpTie)
    /\ UNCHANGED <<factor_df, weights, fpTie, fpStd>>

\* A caller invokes find_pareto_optimal on the table in row order p.
Pareto(p) ==
    /\ call = NoCall
    /\ call' = [op |-> "find_pareto_optimal", order |-> p]
    /\ result' = [status |-> "ok", countries |-> find_pareto_optimal(Reorder(factor_df, p))]
    /\ UNCHANGED <<factor_df, weights, fpTie, fpStd>>

\* A caller invokes pareto_frontier_2d on the table for the factors x_col and
\* y_col.
Frontier(x_col, y_col) ==
    /\ call = NoCall
    /\ call' = [op |-> "pareto_frontier_2d", order |-> Identity(Len(factor_df)),
                x_col |-> x_col, y_col |-> y_col]
    /\ result' \in pareto_frontier_2d(factor_df, x_col, y_col)
    /\ UNCHANGED <<factor_df, weights, fpTie, fpStd>>

\* A caller invokes find_dominant_strategy on the table.
Dominant ==
    /\ call = NoCall
    /\ call' = [op |-> "find_dominant_strategy", order |-> Identity(Len(factor_df))]
    /\ result' = find_dominant_strategy(factor_df)
    /\ UNCHANGED <<factor_df, weights, fpTie, fpStd>>

\* A caller invokes find_nash_equilibrium on the table.
Nash ==
    /\ call = NoCall
    /\ call' = [op |-> "find_nash_equilibrium", order |-> Identity(Len(factor_df))]
    /\ result' = find_nash_equilibrium(factor_df, fpStd)
    /\ UNCHANGED <<factor_df, weights, fpTie, fpStd>>

\* A caller scores the table and invokes build_tradeoff_matrix on the scored
\* table with top_n; an exception of the scorer ends the caller.
Tradeoff(top_n) ==
    /\ call = NoCall
    /\ \E scored \in compute_weighted_utility(factor_df, weights, fpTie) :
         IF scored.status = "ok"
         THEN /\ call' = [op |-> "build_tradeoff_matrix", order |-> Identity(Len(factor_df)),
                          scored_df |-> scored.df, top_n |-> top_n]
              /\ result' = [status |-> "ok",
                            table |-> build_tradeoff_matrix(scored.df, top_n)]
         ELSE /\ call' = [op |-> "compute_weighted_utility",
                          order |-> Identity(Len(factor_df)), scale |-> 1]
              /\ result' = scored
    /\ UNCHANGED <<factor_df, weights, fpTie, fpStd>>

\* A caller scores the table and invokes pairwise_tradeoff_summary on the
\* scored table with top_n; an exception of the scorer ends the caller.
Pairwise(top_n) ==
    /\ call = NoCall
    /\ \E scored \in compute_weighted_utility(factor_df, weights, fpTie) :
         IF scored.status = "ok"
         THEN /\ call' = [op |-> "pairwise_tradeoff_summary",
                          order |-> Identity(Len(factor_df)),
                          scored_df |-> scored.df, top_n |-> top_n]
              /\ result' = pairwise_tradeoff_summary(scored.df, top_n)
         ELSE /\ call' = [op |-> "compute_weighted_utility",
                          order |-> Identity(Len(factor_df)), scale |-> 1]
              /\ result' = scored
    /\ UNCHANGED <<factor_df, weights, fpTie, fpStd>>

\* The caller has used the result; the next call can start.
Return ==
    /\ call # NoCall
    /\ call' = NoCall
    /\ result' = NoResult
    /\ UNCHANGED <<factor_df, weights, fpTie, fpStd>>

\* Calls of the scorer.
Next ==
    \/ \E p \in Orders(Len(factor_df)) : Score(p)
    \/ \E c \in Scalars \ {1} : ScoreScaled(c)
    \/ Return

Spec == Init /\ [][Next]_vars

\* Calls of the functions of the factor table.
NextTable ==
    \/ \E p \in Orders(Len(factor_df)) : Pareto(p)
    \/ Dominant
    \/ Nash
    \/ Return

SpecTable == InitTable /\ [][NextTable]_vars

\* Calls of the trade-off report on the scored table.
NextReport ==
    \/ \E top_n \in 0..(Len(factor_df) + 1) : Tradeoff(top_n)
    \/ \E top_n \in 0..(Len(factor_df) + 1) : Pairwise(top_n)
    \/ Return

SpecReport == Init /\ [][NextReport]_vars

\* Calls of the two-factor frontier.
NextFrontier ==
    \/ \E x_col, y_col \in FactorSet : x_col # y_col /\ Frontier(x_col, y_col)
    \/ Return

SpecFrontier == InitTable /\ [][NextFrontier]_vars

\* ------------------------------------------- run_full_analysis, by line
\* A table of one row more than the default top_n, with the first factor
\* rising and the second falling from row to row (values in tenths).
LongTable == [ i \in 1..(TopNDefault + 1) |-> Row(i, <<10 * i, 60 - 5 * i>>) ]

\* The callers of run_full_analysis: the table, the weights argument, and the
\* doubles' rounding of the halfway sums and of the tied standard deviations.
InitFull ==
    /\ \/ factor_df \in BaseTables /\ weights \in ColumnWeights
       \/ /\ factor_df \in { t \in BaseTables : Len(t) <= 1 }
          /\ weights \in BoundedWeights
       \/ /\ factor_df \in {ScenarioTable, TiedSpreadTable, LongTable}
          /\ weights = None
    /\ fpTie \in SUBSET HalfwayCases(factor_df, weights)
    /\ fpStd \in { n \in SUBSET NoisyStdCases(factor_df) :
                    \A u \in n, v \in NoisyStdCases(factor_df) :
                        SameComputation(u, v) => v \in n }
    /\ call = NoCall
    /\ result = NoResult

\* run_full_analysis is about to execute `line` (189: the return statement).
Running(line) ==
    /\ call.op = "run_full_analysis"
    /\ call.line = line
    /\ result.status = "ok"

\* Line 182: scored = compute_weighted_utility(factor_df, weights).  The call
\* record keeps the table as it was passed in; an exception ends the function
\* at the line that raised it.
FullScore ==
    /\ call = NoCall
    /\ \E scored \in compute_weighted_utility(factor_df, weights, fpTie) :
         /\ call' = [op |-> "run_full_analysis",
                     line |-> IF scored.status = "ok" THEN 183 ELSE 182,
                     factor_df |-> factor_df]
         /\ result' = IF scored.status = "ok"
                      THEN [status |-> "ok", scored_df |-> scored.df]
                      ELSE scored
    /\ factor_df' = FrameAfterScoring(factor_df, weights, fpTie)
    /\ UNCHANGED <<weights, fpTie, fpStd>>

\* Line 183: pareto = find_pareto_optimal(factor_df).
FullPareto ==
    /\ Running(183)
    /\ call' = [call EXCEPT !.line = 184]
    /\ result' = result @@
                   [pareto_optimal |->
                      find_pareto_optimal(AnalysisArgument(factor_df, result.scored_df))]
    /\ UNCHANGED <<factor_df, weights, fpTie, fpStd>>

\* Line 184: dominant = find_dominant_strategy(factor_df).
FullDominant ==
    /\ Running(184)
    /\ LET dominant == find_dominant_strategy(AnalysisArgument(factor_df, result.scored_df))
       IN  IF dominant.status = "ok"
           THEN /\ call' = [call EXCEPT !.line = 185]
                /\ result' = result @@ [dominant_strategy |-> dominant.country]
           ELSE /\ call' = call
                /\ result' = [status |-> dominant.status]
    /\ UNCHANGED <<factor_df, weights, fpTie, fpStd>>

\* Line 185: nash = find_nash_equilibrium(factor_df).
FullNash ==
    /\ Running(185)
    /\ LET nash == find_nash_equilibrium(AnalysisArgument(factor_df, result.scored_df), fpStd)
       IN  IF nash.status = "ok"
           THEN /\ call' = [call EXCEPT !.line = 186]
                /\ result' = result @@ [nash_equilibrium |-> nash.country]
           ELSE /\ call' = call
                /\ result' = [status |-> nash.status]
    /\ factor_df' = FrameAfterBalance(factor_df, fpStd)
    /\ UNCHANGED <<weights, fpTie, fpStd>>

\* Line 186: tradeoff = build_tradeoff_matrix(scored).
FullTradeoff ==
    /\ Running(186)
    /\ call' = [call EXCEPT !.line = 187]
    /\ result' = result @@
                   [tradeoff_matrix |-> build_tradeoff_matrix(result.scored_df, TopNDefault)]
    /\ UNCHANGED <<factor_df, weights, fpTie, fpStd>>

\* Line 187: pairwise = pairwise_tradeoff_summary(scored); the function is
\* then at its return statement.
FullPairwise ==
    /\ Running(187)
    /\ LET pairwise == pairwise_tradeoff_summary(result.scored_df, TopNDefault)
       IN  IF pairwise.status = "ok"
           THEN /\ call' = [call EXCEPT !.line = 189]
                /\ result' = result @@ [pairwise_tradeoffs |-> pairwise.rows]
           ELSE /\ call' = call
                /\ result' = [status |-> pairwise.status]
    /\ UNCHANGED <<factor_df, weights, fpTie, fpStd>>

\* Lines 189-196: the bundle (or the exception) reaches the caller; a call
\* of another function returns as before.
FullReturn ==
    /\ call.op = "run_full_analysis" => (call.line = 189 \/ result.status # "ok")
    /\ Return

\* Calls of run_full_analysis and of the two-factor frontier, in any sequence.
NextFull ==
    \/ FullScore
    \/ FullPareto
    \/ FullDominant
    \/ FullNash
    \/ FullTradeoff
    \/ FullPairwise
    \/ \E x_col, y_col \in FactorSet : x_col # y_col /\ Frontier(x_col, y_col)
    \/ FullReturn

SpecFull == InitFull /\ [][NextFull]_vars

\* ================================================================ claims
\* What the claims speak about: the arguments of the last call and its result.
IsScoreCall == call.op = "compute_weighted_utility"

IsParetoCall == call.op = "find_pareto_optimal"

\* The table as the last call received it.
Presented == Reorder(factor_df, call.order)

\* The weight dict the last call of the scorer worked with.
UsedWeights == EffectiveWeights(Scaled(weights, call.scale))

Abs(x) == IF x < 0 THEN 0 - x ELSE x

\* sum of d over its key set ks, for the claims (no use of the model of line 32)
RECURSIVE SumWeights(_, _)
SumWeights(d, ks) ==
    IF ks = {} THEN 0
    ELSE LET k == CHOOSE x \in ks : TRUE IN d[k] + SumWeights(d, ks \ {k})

\* A weight vector that names every factor, with non-negative weights of
\* positive sum.
ValidWeights(w) ==
    /\ FactorSet \subseteq DOMAIN w
    /\ \A k \in DOMAIN w : w[k] >= 0
    /\ SumWeights(w, DOMAIN w) > 0

\* The exact weighted sum of a row under w, times the sum of the weights, in
\* thousandths: factor values are tenths, so sum(value * weight) is in tenths.
ExactTimesTotal(row, w) ==
    100 * SumWeights([ f \in FactorSet |-> row[f] * w[f] ], FactorSet)

\* The row of entity c in the table df.
RowOf(df, c) == df[CHOOSE i \in 1..Len(df) : df[i].Country = c]

Range(s) == { s[i] : i \in 1..Len(s) }

C2_ScoreIsRoundedWeightedSum ==
    (IsScoreCall /\ ValidWeights(UsedWeights)) =>
        /\ result.status = "ok"
        /\ Len(result.df) = Len(factor_df)
        /\ \A i \in 1..Len(result.df) :
             LET row == result.df[i]
                 tot == SumWeights(UsedWeights, DOMAIN UsedWeights)
             IN  \* |score/100 - exact| <= 0.005, times 1000 * tot
                 /\ 2 * Abs(10 * row["Weighted Score"] * tot
                            - ExactTimesTotal(row, UsedWeights)) <= 10 * tot
                 /\ RowOf(factor_df, row.Country) = [ c \in DOMAIN factor_df[1] |-> row[c] ]

\* A scored row whose exact sum is not a whole number of hundredths and lies
\* nearer the upper one.
C2_Witness ==
    /\ IsScoreCall /\ ValidWeights(UsedWeights) /\ result.status = "ok"
    /\ \E i \in 1..Len(result.df) :
         LET row == result.df[i]
             tot == SumWeights(UsedWeights, DOMAIN UsedWeights)
             d   == 10 * row["Weighted Score"] * tot - ExactTimesTotal(row, UsedWeights)
         IN  d > 0 /\ 2 * d < 10 * tot

\* ---- C3 ---------------------------------------------------------------
\* C3: in every returned ScoredTable, for all entities i and j, Weighted
\* Score(i) > Weighted Score(j) iff Rank(i) < Rank(j), and the scores are
\* equal iff the ranks are equal.
C3_RankMonotone ==
    (IsScoreCall /\ result.status = "ok") =>
        \A i, j \in 1..Len(result.df) :
            LET a == result.df[i]
                b == result.df[j]
            IN  /\ (a["Weighted Score"] > b["Weighted Score"]) <=> (a.Rank < b.Rank)
                /\ (a["Weighted Score"] = b["Weighted Score"]) <=> (a.Rank = b.Rank)

\* A table with a score above two tied scores: the tied rows share the
\* truncated mean of the positions 2 and 3.
C3_Witness ==
    /\ IsScoreCall /\ result.status = "ok" /\ Len(result.df) = 3
    /\ result.df[1]["Weighted Score"] > result.df[2]["Weighted Score"]
    /\ result.df[2]["Weighted Score"] = result.df[3]["Weighted Score"]
    /\ result.df[1].Rank = 1 /\ result.df[2].Rank = 2 /\ result.df[3].Rank = 2

\* ---- C4 ---------------------------------------------------------------
\* C4 (as claimed): every entity holding the highest Weighted Score has Rank
\* 1, also when several tie for it; A{F1:100,F2:0}, B{F1:0,F2:100},
\* C{F1:50,F2:50} under equal weights all get Weighted Score 50.0 and Rank 1.
C4_TopScoreHasRankOne ==
    (IsScoreCall /\ result.status = "ok") =>
        /\ \A i \in 1..Len(result.df) :
             (\A j \in 1..Len(result.df) :
                 result.df[i]["Weighted Score"] >= result.df[j]["Weighted Score"])
             => result.df[i].Rank = 1
        /\ (factor_df = ScenarioTable /\ weights = Some([ f \in FactorSet |-> 1 ]))
             => \A i \in 1..3 : result.df[i]["Weighted Score"] = 5000

\* ---- C5 ---------------------------------------------------------------
\* The Weighted Score and the Rank of entity c in an outcome of the scorer.
ScoreIn(out, c) == RowOf(out.df, c)["Weighted Score"]

RankIn(out, c) == RowOf(out.df, c).Rank

\* What the scorer computes on the table as given, with the weights as given,
\* up to the final sort of the rows (as a one-element set).
Reference == { RankedTable(factor_df, weights, fpTie) }

\* The entities whose exact weighted sum under w is halfway between two
\* hundredths: 2 * 1000 * sum * total is an odd multiple of 10 * total.
HalfwayEntities(w) ==
    { factor_df[i].Country : i \in { k \in 1..Len(factor_df) :
        LET tot == SumWeights(w, DOMAIN w)
            x   == 2 * ExactTimesTotal(factor_df[k], w)
        IN  x % (10 * tot) = 0 /\ (x \div (10 * tot)) % 2 = 1 } }

C6_ZeroSumIsConfigurationError ==
    (IsScoreCall /\ weights # None /\ SumWeights(UsedWeights, DOMAIN UsedWeights) = 0) =>
        result.status = "ConfigurationError"

\* ---- C7 ---------------------------------------------------------------
\* C7 (as claimed): the scorer invoked with a weight vector in which a weight
\* is negative fails with a ConfigurationError, also when the weights have a
\* positive sum (the case stated here, on a table that has rows); no
\* ScoredTable is returned.
C7_NegativeWeightIsConfigurationError ==
    (/\ IsScoreCall
     /\ weights # None
     /\ Len(factor_df) >= 1
     /\ \E k \in DOMAIN UsedWeights : UsedWeights[k] < 0
     /\ SumWeights(UsedWeights, DOMAIN UsedWeights) > 0) =>
        result.status = "ConfigurationError"

\* ---- C8 ---------------------------------------------------------------
\* C8 (as claimed): the scorer invoked with a weight vector that has a key
\* which is no factor name fails with a ConfigurationError; the extra weight
\* is never silently ignored and never changes the normalized weights of the
\* factors (stated here for a table that has rows).
C8_UnknownFactorIsConfigurationError ==
    (/\ IsScoreCall
     /\ weights # None
     /\ Len(factor_df) >= 1
     /\ ~ (DOMAIN UsedWeights \subseteq FactorSet)) =>
        result.status = "ConfigurationError"

\* ---- C9 ---------------------------------------------------------------
\* The position of entity c in the table df.
PositionIn(df, c) == CHOOSE i \in 1..Len(df) : df[i].Country = c

\* C9 (as claimed): the rows of every returned ScoredTable descend in Weighted
\* Score, and two rows of equal Weighted Score stand in the same relative
\* order as in the input table.
C9_DescendingAndStable ==
    (IsScoreCall /\ result.status = "ok") =>
        \A i, j \in 1..Len(result.df) :
            i < j =>
                /\ result.df[i]["Weighted Score"] >= result.df[j]["Weighted Score"]
                /\ result.df[i]["Weighted Score"] = result.df[j]["Weighted Score"]
                     => PositionIn(Presented, result.df[i].Country)
                          < PositionIn(Presented, result.df[j].Country)

\* ---- C10 --------------------------------------------------------------
\* C10: permuting the input rows does not change the result of the scorer
\* except for the order of tied rows: the call on the reordered table ends as
\* the call on the table as given does, its output has as many rows as the
\* input, and every entity gets the same Weighted Score and the same Rank.
C10_RowOrderIndependent ==
    (IsScoreCall /\ call.scale = 1) =>
        \A ref \in Reference :
            /\ result.status = ref.status
            /\ result.status = "ok" =>
                 /\ Len(result.df) = Len(factor_df)
                 /\ \A i \in 1..Len(factor_df) :
                      LET c == factor_df[i].Country
                      IN  /\ \E k \in 1..Len(result.df) : result.df[k].Country = c
                          /\ ScoreIn(result, c) = ScoreIn(ref, c)
                          /\ RankIn(result, c) = RankIn(ref, c)

\* A call on a reordered table of three rows, two of them tied and one not.
C10_Witness ==
    /\ IsScoreCall /\ call.scale = 1 /\ result.status = "ok"
    /\ Len(factor_df) = 3
    /\ call.order # Identity(3)
    /\ \E i, j, k \in 1..3 :
         /\ i # j
         /\ result.df[i]["Weighted Score"] = result.df[j]["Weighted Score"]
         /\ result.df[i]["Weighted Score"] # result.df[k]["Weighted Score"]

\* ---- C11 --------------------------------------------------------------
IsFrontierCall == call.op = "pareto_frontier_2d"

\* The orders of n rows.
Perms(n) == { p \in [1..n -> 1..n] : \A i, j \in 1..n : i # j => p[i] # p[j] }

\* The entities a sweep of df in the order p keeps: those whose y is >= the y
\* of every entity swept before them (the running maximum).
KeptBySweep(df, p, y_col) ==
    { df[p[k]].Country : k \in { i \in 1..Len(df) :
        \A j \in 1..(i - 1) : df[p[i]][y_col] >= df[p[j]][y_col] } }

\* The entities of the returned frontier.
Returned == { result.frontier[i].Country : i \in 1..Len(result.frontier) }

\* C11: pareto_frontier_2d keeps an entity iff, in a single sweep over the
\* entities sorted by x descending, its y is >= the running maximum of y over
\* the entities swept before it (so two entities of equal y that both reach
\* the running maximum are both kept); the kept points, each once and with its
\* own x and y, are returned ordered by x ascending.
C11_FrontierIsSweep ==
    (IsFrontierCall /\ Len(factor_df) >= 1) =>
        /\ result.status = "ok"
        /\ \E p \in Perms(Len(factor_df)) :
             /\ \A i, j \in 1..Len(factor_df) :
                  i < j => factor_df[p[i]][call.x_col] >= factor_df[p[j]][call.x_col]
             /\ Returned = KeptBySweep(factor_df, p, call.y_col)
        /\ Cardinality(Returned) = Len(result.frontier)
        /\ \A i \in 1..Len(result.frontier) :
             LET pt == result.frontier[i]
             IN  /\ pt[call.x_col] = RowOf(factor_df, pt.Country)[call.x_col]
                 /\ pt[call.y_col] = RowOf(factor_df, pt.Country)[call.y_col]
        /\ \A i, j \in 1..Len(result.frontier) :
             i < j => result.frontier[i][call.x_col] <= result.frontier[j][call.x_col]

\* A frontier with a flat segment (two kept entities of equal y and different
\* x) of a table one entity of which is not kept.
C11_Witness ==
    /\ IsFrontierCall /\ result.status = "ok"
    /\ Len(result.frontier) < Len(factor_df)
    /\ \E i, j \in 1..Len(result.frontier) :
         /\ result.frontier[i][call.x_col] < result.frontier[j][call.x_col]
         /\ result.frontier[i][call.y_col] = result.frontier[j][call.y_col]

\* ---- C12 --------------------------------------------------------------
\* C12 (as claimed): the returned sequence, traversed in its returned
\* x-ascending order, has non-decreasing x and non-decreasing y.
C12_FrontierXAndYNonDecreasing ==
    (IsFrontierCall /\ result.status = "ok") =>
        \A i, j \in 1..Len(result.frontier) :
            i < j =>
                /\ result.frontier[i][call.x_col] <= result.frontier[j][call.x_col]
                /\ result.frontier[i][call.y_col] <= result.frontier[j][call.y_col]

\* C12 (amended): the returned sequence has non-decreasing x, and its y does
\* not increase from a point to a point of greater x.
C12_FrontierXUpYDown ==
    (IsFrontierCall /\ result.status = "ok") =>
        \A i, j \in 1..Len(result.frontier) :
            /\ i < j => result.frontier[i][call.x_col] <= result.frontier[j][call.x_col]
            /\ result.frontier[i][call.x_col] < result.frontier[j][call.x_col]
                 => /\ i < j
                    /\ result.frontier[i][call.y_col] >= result.frontier[j][call.y_col]

\* A frontier of two points or more whose x increases and whose y decreases
\* from the first point to the last.
C12_Witness ==
    /\ IsFrontierCall /\ result.status = "ok"
    /\ Len(result.frontier) >= 2
    /\ result.frontier[1][call.x_col] < result.frontier[Len(result.frontier)][call.x_col]
    /\ result.frontier[1][call.y_col] > result.frontier[Len(result.frontier)][call.y_col]

\* ---- C13 --------------------------------------------------------------
\* C13 (as claimed): for every table, also one in which several entities
\* share an x value, the returned sequence is non-decreasing in x and, read
\* backwards from the highest x to the lowest, non-decreasing in y.
C13_FrontierStaircaseBackwards ==
    (IsFrontierCall /\ result.status = "ok") =>
        \A i, j \in 1..Len(result.frontier) :
            i < j =>
                /\ result.frontier[i][call.x_col] <= result.frontier[j][call.x_col]
                /\ result.frontier[i][call.y_col] >= result.frontier[j][call.y_col]

\* ---- C14 --------------------------------------------------------------
IsDominantCall == call.op = "find_dominant_strategy"

\* C14: whenever find_dominant_strategy returns an entity e, e's value equals
\* the maximum of the column for every factor of the table.
C14_DominantIsColumnMaximum ==
    (IsDominantCall /\ result.status = "ok" /\ result.country # None) =>
        \E i \in 1..Len(factor_df) :
            /\ factor_df[i].Country = result.country[1]
            /\ \A f \in FactorSet : \A k \in 1..Len(factor_df) :
                 factor_df[i][f] >= factor_df[k][f]

\* An entity is returned from a table in which another entity is below it in
\* every factor.
C14_Witness ==
    /\ IsDominantCall /\ result.status = "ok" /\ result.country # None
    /\ \E k \in 1..Len(factor_df) :
         \A f \in FactorSet : factor_df[k][f] < RowOf(factor_df, result.country[1])[f]

\* ---- C15 --------------------------------------------------------------
\* The entities that hold the maximum of every factor column of the table.
MaximizersOfEveryFactor ==
    { factor_df[i].Country : i \in { j \in 1..Len(factor_df) :
        \A f \in FactorSet : \A k \in 1..Len(factor_df) :
            factor_df[j][f] >= factor_df[k][f] } }

\* C15 (as claimed): for every non-empty table, find_dominant_strategy returns
\* an entity when one and the same entity is the maximizer of every factor,
\* and null when no entity is the maximizer of every factor, also when several
\* entities tie for the maximum of a factor.
C15_DominantIffMaximizerOfEveryFactor ==
    (IsDominantCall /\ Len(factor_df) >= 1) =>
        /\ result.status = "ok"
        /\ MaximizersOfEveryFactor # {} =>
             (result.country # None /\ result.country[1] \in MaximizersOfEveryFactor)
        /\ MaximizersOfEveryFactor = {} => result.country = None

\* ---- C16 --------------------------------------------------------------
IsNashCall == call.op = "find_nash_equilibrium"

\* Whether the row of values u is more balanced than the row of values v:
\* a smaller sample standard deviation, or the same one and a higher mean.
\* (K*K*(K-1) times the variance is the sum of the squares of K*value - sum.)
MoreBalanced(u, v) ==
    LET sq(w) == SumWeights([ i \in 1..K |->
                     (K * w[i] - SumWeights(w, 1..K)) * (K * w[i] - SumWeights(w, 1..K)) ],
                     1..K)
    IN  \/ sq(u) < sq(v)
        \/ sq(u) = sq(v) /\ SumWeights(u, 1..K) > SumWeights(v, 1..K)

\* C16 (as claimed): for every non-empty table, find_nash_equilibrium returns
\* the entity with the smallest sample standard deviation across its factor
\* values; among entities tied on it, the one with the highest mean; among
\* entities tied on both, the one that comes first in the input row order.
C16_MostBalancedFirst ==
    (IsNashCall /\ Len(factor_df) >= 1) =>
        /\ result.status = "ok"
        /\ \E i \in 1..Len(factor_df) :
             /\ factor_df[i].Country = result.country
             /\ \A k \in 1..Len(factor_df) :
                  ~ MoreBalanced(Values(factor_df[k]), Values(factor_df[i]))
             /\ \A k \in 1..(i - 1) :
                  MoreBalanced(Values(factor_df[i]), Values(factor_df[k]))

\* ---- C17 --------------------------------------------------------------
\* C17 (as claimed): find_nash_equilibrium returns an entity of the table for
\* every table with at least one row, and fails with an EmptyInputError when
\* the table has zero rows.
C17_EntityOrEmptyInputError ==
    IsNashCall =>
        /\ Len(factor_df) >= 1 =>
             /\ result.status = "ok"
             /\ \E i \in 1..Len(factor_df) : factor_df[i].Country = result.country
        /\ Len(factor_df) = 0 => result.status = "EmptyInputError"

\* ---- C18 --------------------------------------------------------------
\* C18: for the table A{F1:100,F2:0}, B{F1:0,F2:100}, C{F1:50,F2:50},
\* find_pareto_optimal returns exactly A, B and C, and find_nash_equilibrium
\* returns C.
C18_ScenarioParetoAndBalance ==
    factor_df = ScenarioTable =>
        /\ IsParetoCall =>
             (Range(result.countries) = {1, 2, 3} /\ Len(result.countries) = 3)
        /\ IsNashCall => (result.status = "ok" /\ result.country = 3)

\* The call of find_nash_equilibrium on the scenario's table has returned C.
C18_Witness ==
    /\ factor_df = ScenarioTable
    /\ IsNashCall
    /\ result.status = "ok"
    /\ result.country = 3

\* ---- C19 --------------------------------------------------------------
IsTradeoffCall == call.op = "build_tradeoff_matrix"

\* The first top_n rows of the scored table the trade-off call received.
Subset ==
    [ i \in 1..(IF call.top_n < Len(call.scored_df) THEN call.top_n
                                                     ELSE Len(call.scored_df))
        |-> call.scored_df[i] ]

\* C19: for every ScoredTable, every factor and every topN >= 1, each delta
\* of build_tradeoff_matrix equals the entity's factor value minus the maximum
\* of that factor over the first topN rows only, rounded to 1 decimal (a whole
\* number of tenths), and is <= 0; the table has a row per row of the subset.
C19_DeltaToSubsetMaximum ==
    (IsTradeoffCall /\ call.top_n >= 1) =>
        /\ result.status = "ok"
        /\ Len(result.table) = Len(Subset)
        /\ \A i \in 1..Len(Subset) :
             /\ result.table[i].Country = Subset[i].Country
             /\ \A f \in FactorSet :
                  /\ \E k \in 1..Len(Subset) :
                       /\ \A j \in 1..Len(Subset) : Subset[j][f] <= Subset[k][f]
                       /\ result.table[i].delta[f] = Subset[i][f] - Subset[k][f]
                  /\ result.table[i].delta[f] <= 0

\* A subset that leaves out the row holding the maximum of a factor over the
\* full table, with a row that is below the subset's maximum of that factor.
C19_Witness ==
    /\ IsTradeoffCall /\ result.status = "ok"
    /\ Len(Subset) < Len(call.scored_df)
    /\ \E f \in FactorSet :
         /\ \E k \in 1..Len(call.scored_df) :
              \A j \in 1..Len(Subset) : Subset[j][f] < call.scored_df[k][f]
         /\ \E i \in 1..Len(Subset) : result.table[i].delta[f] < 0

\* ---- C20 --------------------------------------------------------------
\* C20: for every non-empty subset taken by build_tradeoff_matrix, every
\* factor column of the returned table has at least one row whose delta is
\* exactly 0.
C20_EveryColumnHasAZero ==
    (IsTradeoffCall /\ call.top_n >= 1 /\ Len(call.scored_df) >= 1) =>
        /\ Len(result.table) >= 1
        /\ \A f \in FactorSet :
             \E i \in 1..Len(result.table) : result.table[i].delta[f] = 0

\* A returned table of two rows or more in which the first row is not at 0
\* in some factor column (a later row is).
C20_Witness ==
    /\ IsTradeoffCall /\ result.status = "ok"
    /\ Len(result.table) >= 2
    /\ \E f \in FactorSet :
         /\ result.table[1].delta[f] < 0
         /\ \E i \in 2..Len(result.table) : result.table[i].delta[f] = 0

\* ---- C21 --------------------------------------------------------------
\* C21: build_tradeoff_matrix reports exactly the first topN rows of the
\* ranked ScoredTable in their ranked order, and all rows when topN exceeds
\* the row count: the result has min(topN, row count) rows.
C21_FirstTopNRowsInRankedOrder ==
    IsTradeoffCall =>
        /\ result.status = "ok"
        /\ Len(result.table) = (IF call.top_n < Len(call.scored_df)
                                 THEN call.top_n ELSE Len(call.scored_df))
        /\ \A i \in 1..Len(result.table) :
             /\ result.table[i].Country = call.scored_df[i].Country
             /\ result.table[i].WeightedScore = call.scored_df[i]["Weighted Score"]

\* A call that cuts the scored table between two rows of different score, and
\* reports more than one row.
C21_Witness ==
    /\ IsTradeoffCall /\ result.status = "ok"
    /\ call.top_n >= 2
    /\ call.top_n < Len(call.scored_df)
    /\ Len(result.table) = call.top_n
    /\ call.scored_df[call.top_n]["Weighted Score"]
         > call.scored_df[call.top_n + 1]["Weighted Score"]

\* ---- C22 --------------------------------------------------------------
IsPairwiseCall == call.op = "pairwise_tradeoff_summary"

ScoresTo(df, scored) ==
    \E s \in compute_weighted_utility(df, weights, fpTie) :
        s.status = "ok" /\ s.df = scored

\* C23: no core operation changes its arguments.  Every step of every call
\* leaves the caller's factor table and the weights argument as they were,
\* and every step of run_full_analysis leaves the scored table that it passes
\* to the two trade-off functions as it was; so when run_full_analysis
\* returns, a later call of the scorer and of find_nash_equilibrium on the
\* caller's table returns what the first call returned.
C23_ArgumentsUnchanged ==
    [][ /\ factor_df' = factor_df
        /\ weights' = weights
        /\ (call.op = "run_full_analysis" /\ call'.op = "run_full_analysis"
              /\ result.status = "ok" /\ result'.status = "ok")
             => /\ result'.scored_df = result.scored_df
                /\ call'.factor_df = factor_df
        /\ Running(189)
             => /\ ScoresTo(factor_df, result.scored_df)
                /\ find_nash_equilibrium(factor_df, fpStd).country = result.nash_equilibrium
      ]_vars

\* C23 witness: run_full_analysis has run all six calls on a table of several
\* rows, whose scored table differs from it, and the caller's table is the
\* one that was passed in.
C23_Witness ==
    /\ Running(189)
    /\ Len(factor_df) >= 2
    /\ factor_df = call.factor_df
    /\ \E i \in 1..Len(factor_df) : result.scored_df[i].Country # factor_df[i].Country

\* C24: the bundle that run_full_analysis returns holds what the operations
\* return when called separately: scored_df is a result of the scorer on the
\* table and the weights; pareto_optimal, dominant_strategy and
\* nash_equilibrium are the results on the raw table that was passed in;
\* tradeoff_matrix and pairwise_tradeoffs are the results on scored_df with
\* top_n = 10.  When run_full_analysis raises, the separate call of the
\* operation at that line raises the same exception.
C24_BundleEqualsSeparateCalls ==
    /\ Running(189) =>
         /\ ScoresTo(call.factor_df, result.scored_df)
         /\ result.pareto_optimal = find_pareto_optimal(call.factor_df)
         /\ result.dominant_strategy = find_dominant_strategy(call.factor_df).country
         /\ result.nash_equilibrium = find_nash_equilibrium(call.factor_df, fpStd).country
         /\ result.tradeoff_matrix = build_tradeoff_matrix(result.scored_df, 10)
         /\ result.pairwise_tradeoffs = pairwise_tradeoff_summary(result.scored_df, 10).rows
    /\ (call.op = "run_full_analysis" /\ result.status # "ok") =>
         \/ /\ call.line = 182
            /\ result \in compute_weighted_utility(call.factor_df, weights, fpTie)
         \/ /\ call.line = 184
            /\ result.status = find_dominant_strategy(call.factor_df).status

\* C24 witness: a bundle for a table of more than 10 rows: the trade-off
\* matrix has 10 rows, and the Pareto list of the raw table differs from that
\* of the scored table.
C24_Witness ==
    /\ Running(189)
    /\ Len(call.factor_df) > 10
    /\ Len(result.tradeoff_matrix) = 10
    /\ result.pareto_optimal # find_pareto_optimal(result.scored_df)

C26_SliderWeightsScoreWithoutError ==
    (/\ IsScoreCall
     /\ call.scale = 1
     /\ Len(factor_df) >= 1
     /\ weights \in { AppWeights(s) : s \in [FactorSet -> SliderValues] })
        => result.status = "ok"

\* ---- C27 --------------------------------------------------------------
\* The scored table's greatest "Weighted Score".
TopScore(scored) ==
    CHOOSE s \in { scored[i]["Weighted Score"] : i \in 1..Len(scored) } :
        \A i \in 1..Len(scored) : scored[i]["Weighted Score"] <= s

\* C27: for a non-empty table and weights that are all strictly positive, at
\* least one entity that holds the maximum "Weighted Score" of the scorer's
\* result is in find_pareto_optimal's result for the same table.
C27_SomeTopScoreIsParetoOptimal ==
    (/\ Running(189)
     /\ Len(call.factor_df) >= 1
     /\ \A f \in DOMAIN EffectiveWeights(weights) : EffectiveWeights(weights)[f] > 0)
        => \E i \in 1..Len(result.scored_df) :
             /\ result.scored_df[i]["Weighted Score"] = TopScore(result.scored_df)
             /\ result.scored_df[i].Country \in Range(result.pareto_optimal)

\* C27 witness: positive weights and a table with a dominated entity and
\* with a Pareto-optimal entity below the top score.
C27_Witness ==
    /\ Running(189)
    /\ \A f \in DOMAIN EffectiveWeights(weights) : EffectiveWeights(weights)[f] > 0
    /\ Len(result.pareto_optimal) < Len(call.factor_df)
    /\ \E i \in 1..Len(result.scored_df) :
         /\ result.scored_df[i]["Weighted Score"] < TopScore(result.scored_df)
         /\ result.scored_df[i].Country \in Range(result.pareto_optimal)

\* ---- C28 --------------------------------------------------------------
\* C28: whenever find_dominant_strategy returns an entity e, e is in
\* find_pareto_optimal's result for the same table; and when e is the only
\* maximizer of some factor, every other entity whose factor values differ
\* from e's is outside the Pareto result.
C28_DominantIsParetoOptimal ==
    (/\ call.op = "run_full_analysis" /\ result.status = "ok" /\ call.line >= 185
     /\ result.dominant_strategy # None)
        => LET table == call.factor_df
               e == RowOf(table, result.dominant_strategy[1])
           IN  /\ e.Country \in Range(result.pareto_optimal)
               /\ (\E f \in FactorSet : \A k \in 1..Len(table) :
                        table[k].Country # e.Country => table[k][f] < e[f])
                   => \A k \in 1..Len(table) :
                        (table[k].Country # e.Country /\ Values(table[k]) # Values(e))
                            => table[k].Country \notin Range(result.pareto_optimal)

\* C28 witness: a dominant entity that is the only maximizer of a factor, in
\* a table of three entities or more; the Pareto result is that entity
\* alone.
C28_Witness ==
    /\ call.op = "run_full_analysis" /\ result.status = "ok" /\ call.line >= 185
    /\ result.dominant_strategy # None
    /\ Len(call.factor_df) >= 3
    /\ LET table == call.factor_df
           e == RowOf(table, result.dominant_strategy[1])
       IN  /\ \E f \in FactorSet : \A k \in 1..Len(table) :
                table[k].Country # e.Country => table[k][f] < e[f]
           /\ result.pareto_optimal = <<e.Country>>

\* ---- C29 --------------------------------------------------------------
\* C29: for a table of at least one row find_pareto_optimal returns a
\* non-empty list; the list holds each Pareto-optimal entity (one that no
\* other entity is >= in every factor and > in one) exactly once and nothing
\* else, in the order of the input rows; a table whose rows all have the
\* same factor values yields every entity.
C29_ParetoListNonEmptyOnceInRowOrder ==
    IsParetoCall =>
        LET table == Presented
            out == result.countries
            optimal == { table[i].Country : i \in { i \in 1..Len(table) :
                           \A j \in 1..Len(table) :
                               ~ /\ \A f \in FactorSet : table[j][f] >= table[i][f]
                                 /\ \E f \in FactorSet : table[j][f] > table[i][f] } }
        IN  /\ Len(table) >= 1 => Len(out) >= 1
            /\ Range(out) = optimal
            /\ Len(out) = Cardinality(optimal)
            /\ \A i, j \in 1..Len(out) :
                 i < j => PositionIn(table, out[i]) < PositionIn(table, out[j])
            /\ (\A i, j \in 1..Len(table) : Values(table[i]) = Values(table[j]))
                 => out = [ i \in 1..Len(table) |-> table[i].Country ]

\* C29 witness: a table presented in another order than its base order, with
\* two rows of the same values among its Pareto-optimal entities and an
\* entity left out; the list follows the presented order.
C29_Witness ==
    /\ IsParetoCall
    /\ Len(result.countries) >= 2
    /\ Len(result.countries) < Len(factor_df)
    /\ result.countries[1] > result.countries[2]
    /\ Values(RowOf(factor_df, result.countries[1]))
         = Values(RowOf(factor_df, result.countries[2]))

\* ---- C30 --------------------------------------------------------------
\* The smallest and the greatest factor value of a row, in hundredths.
MinFactor(row) ==
    10 * (CHOOSE v \in { row[f] : f \in FactorSet } : \A f \in FactorSet : v <= row[f])

MaxFactor(row) ==
    10 * (CHOOSE v \in { row[f] : f \in FactorSet } : \A f \in FactorSet : v >= row[f])

\* C30: with a weight vector whose keys are exactly the factor names and
\* whose weights are non-negative with a positive sum, every row's "Weighted
\* Score" lies between the row's smallest and its greatest factor value; so
\* factor values in 0..100 give scores in 0..100.
C30_ScoreBetweenMinAndMaxFactor ==
    (/\ IsScoreCall
     /\ DOMAIN UsedWeights = FactorSet
     /\ \A f \in FactorSet : UsedWeights[f] >= 0
     /\ SumWeights(UsedWeights, FactorSet) > 0)
        => /\ result.status = "ok"
           /\ \A i \in 1..Len(result.df) :
                LET row == result.df[i]
                IN  /\ MinFactor(row) <= row["Weighted Score"]
                    /\ row["Weighted Score"] <= MaxFactor(row)
                    /\ (\A f \in FactorSet : 0 <= row[f] /\ row[f] <= 1000)
                         => (0 <= row["Weighted Score"] /\ row["Weighted Score"] <= 10000)

\* C30 witness: unequal weights given as a dict, and a row whose score lies
\* strictly between its smallest and its greatest factor value.
C30_Witness ==
    /\ IsScoreCall /\ result.status = "ok"
    /\ weights # None
    /\ DOMAIN UsedWeights = FactorSet
    /\ \E f, g \in FactorSet : 0 < UsedWeights[f] /\ UsedWeights[f] < UsedWeights[g]
    /\ \E i \in 1..Len(result.df) :
         /\ MinFactor(result.df[i]) < result.df[i]["Weighted Score"]
         /\ result.df[i]["Weighted Score"] < MaxFactor(result.df[i])

====
